---- MODULE Spec2Model ----
(***************************************************************************)
(* The Order aggregate of the step-1 basic model (Order, OrderItem, Money, *)
(* ProductId) as a state machine, and the Money value object on its own.   *)
(* Every method is an operator that                                        *)
(* returns the object as the method leaves it together with the outcome of *)
(* the call: "OK", or the name of the error the method throws.             *)
(*                                                                         *)
(* The source throws plain Error objects; the names used here are          *)
(*   InvalidAmount    Money constructor, amount < 0                        *)
(*   InvalidCurrency  Money constructor, code not three characters         *)
(*   CurrencyMismatch Money.assertSameCurrency                             *)
(*   NegativeResult   Money.subtract                                       *)
(*   InvalidFactor    Money.multiply                                       *)
(*   InvalidQuantity  OrderItem constructor / changeQuantity               *)
(*   InvalidState     Order status guards                                  *)
(*   EmptyOrder       Order.place with no items                            *)
(*   ItemNotFound     Order.removeItem / changeItemQuantity                *)
(*   MaxItems         Order.addItem with maxItems items                    *)
(***************************************************************************)
EXTENDS Integers, Sequences, FiniteSets, TLC

VARIABLES order, prev, last, money, repository, snapshot, pricing, customer

vars == <<order, prev, last, money, repository, snapshot, pricing, customer>>

----------------------------------------------------------------------------
(* Outcomes of a call that returns a value or throws. *)

Return(v) == [ok |-> TRUE, error |-> "OK", value |-> v]

Throw(e) == [ok |-> FALSE, error |-> e]

----------------------------------------------------------------------------
(* Money.  A currency code is a sequence of characters. *)

JPY == <<"J", "P", "Y">>

USD == <<"U", "S", "D">>

toUpperCaseChar(ch) ==
    CASE ch = "j" -> "J"
      [] ch = "p" -> "P"
      [] ch = "y" -> "Y"
      [] ch = "u" -> "U"
      [] ch = "s" -> "S"
      [] ch = "d" -> "D"
      [] OTHER -> ch

toUpperCase(s) == [i \in 1..Len(s) |-> toUpperCaseChar(s[i])]

\* Mutant: the rational num/den (den > 0) is rounded up.
MathCeil(num, den) == -((-num) \div den)

\* Math.floor of the rational num/den (den > 0).
MathFloor(num, den) == num \div den

\* A JavaScript number as a rational; Number(n) is the integer n.
Number(n) == [num |-> n, den |-> 1]

\* Mutant: the constructor does not look at the amount.
MoneyUnchecked(amount, currency) ==
    IF Len(currency) # 3 THEN Throw("InvalidCurrency")
    ELSE Return([amount |-> amount, currency |-> toUpperCase(currency)])

\* Mutant: the constructor looks at the currency before the amount.
MoneyCurrencyFirst(amount, currency) ==
    IF Len(currency) # 3 THEN Throw("InvalidCurrency")
    ELSE IF amount < 0 THEN Throw("InvalidAmount")
    ELSE Return([amount |-> amount, currency |-> toUpperCase(currency)])

\* new Money(amount, currency)
Money(amount, currency) ==
    IF amount < 0 THEN Throw("InvalidAmount")
    ELSE IF Len(currency) # 3 THEN Throw("InvalidCurrency")
    ELSE Return([amount |-> amount, currency |-> toUpperCase(currency)])

\* Money.zero(), currency defaulted to 'JPY'
zero == Money(0, JPY)

fromYen(amount) == Money(amount, JPY)

assertSameCurrency(this, other) == this.currency = other.currency

add(this, other) ==
    IF ~assertSameCurrency(this, other) THEN Throw("CurrencyMismatch")
    ELSE Money(this.amount + other.amount, this.currency)

\* Mutant: subtract looks at the sign of the result before the currencies.
subtractNegativeFirst(this, other) ==
    IF this.amount - other.amount < 0 THEN Throw("NegativeResult")
    ELSE IF ~assertSameCurrency(this, other) THEN Throw("CurrencyMismatch")
    ELSE Money(this.amount - other.amount, this.currency)

\* Mutant: subtract refuses a result of zero.
subtractRejectsZero(this, other) ==
    IF ~assertSameCurrency(this, other) THEN Throw("CurrencyMismatch")
    ELSE LET result == this.amount - other.amount IN
         IF result <= 0 THEN Throw("NegativeResult")
         ELSE Money(result, this.currency)

subtract(this, other) ==
    IF ~assertSameCurrency(this, other) THEN Throw("CurrencyMismatch")
    ELSE LET result == this.amount - other.amount IN
         IF result < 0 THEN Throw("NegativeResult")
         ELSE Money(result, this.currency)

\* multiplier is a rational [num, den]
multiply(this, multiplier) ==
    IF multiplier.num < 0 THEN Throw("InvalidFactor")
    ELSE Money(MathFloor(this.amount * multiplier.num, multiplier.den),
               this.currency)

equals(this, other) ==
    this.amount = other.amount /\ this.currency = other.currency

\* Mutant: greaterThan is true of equal amounts.
greaterThanOrEqual(this, other) ==
    IF ~assertSameCurrency(this, other) THEN Throw("CurrencyMismatch")
    ELSE Return(this.amount >= other.amount)

greaterThan(this, other) ==
    IF ~assertSameCurrency(this, other) THEN Throw("CurrencyMismatch")
    ELSE Return(this.amount > other.amount)

----------------------------------------------------------------------------
(* ProductId and OrderItem.  A ProductId is its string value. *)

ProductIdEquals(this, other) == this = other

\* new OrderItem(productId, quantity, unitPrice)
OrderItem(productId, quantity, unitPrice) ==
    IF quantity <= 0 THEN Throw("InvalidQuantity")
    ELSE Return([productId |-> productId, quantity |-> quantity,
                 unitPrice |-> unitPrice])

\* Mutant: changeQuantity accepts the quantity 0.
changeQuantityAllowsZero(this, newQuantity) ==
    IF newQuantity < 0 THEN Throw("InvalidQuantity")
    ELSE Return([this EXCEPT !.quantity = newQuantity])

changeQuantity(this, newQuantity) ==
    IF newQuantity <= 0 THEN Throw("InvalidQuantity")
    ELSE Return([this EXCEPT !.quantity = newQuantity])

\* Mutant: the subtotal is the unit price, whatever the quantity.
getSubtotalUnitPrice(this) == multiply(this.unitPrice, Number(1))

getSubtotal(this) == multiply(this.unitPrice, Number(this.quantity))

\* Mutant: no line is ever recognised as holding the product.
hasProductNever(this, productId) == FALSE

hasProduct(this, productId) == ProductIdEquals(this.productId, productId)

----------------------------------------------------------------------------
(* Order *)

DRAFT == "DRAFT"

PLACED == "PLACED"

PAID == "PAID"

SHIPPED == "SHIPPED"

DELIVERED == "DELIVERED"

CANCELLED == "CANCELLED"

OrderStatus == {DRAFT, PLACED, PAID, SHIPPED, DELIVERED, CANCELLED}

maxItems == 100

\* placedAt is <<>> while undefined and <<t>> once set to the date t.
Undefined == <<>>

\* Mutant: the constructor leaves the Order placed.
OrderPlaced(id, customerId) ==
    [id |-> id, customerId |-> customerId, items |-> <<>>, status |-> PLACED,
     totalAmount |-> zero.value, placedAt |-> Undefined]

\* new Order(id, customerId)
Order(id, customerId) ==
    [id |-> id, customerId |-> customerId, items |-> <<>>, status |-> DRAFT,
     totalAmount |-> zero.value, placedAt |-> Undefined]

\* new OrderId(value): an OrderId is its string value.
OrderId(value) ==
    IF value = "" THEN Throw("EmptyOrderId") ELSE Return(value)

\* OrderId.generate(); uuid is the value of uuidv4()
generate(uuid) == OrderId(uuid).value

\* Order.create(customerId)
create(customerId, uuid) == Order(generate(uuid), customerId)

\* Outcome of a method of Order: the aggregate as the call leaves it.
Done(this) == [this |-> this, error |-> "OK"]

Fail(this, e) == [this |-> this, error |-> e]

\* Array.prototype.findIndex(item => item.hasProduct(productId)), 1-based;
\* 0 when no item matches (the source's -1 / undefined).
findIndex(items, productId) ==
    IF \E i \in 1..Len(items) : hasProduct(items[i], productId)
    THEN CHOOSE i \in 1..Len(items) :
            /\ hasProduct(items[i], productId)
            /\ \A j \in 1..(i - 1) : ~hasProduct(items[j], productId)
    ELSE 0

\* items.splice(index, 1)
splice(items, index) ==
    [i \in 1..(Len(items) - 1) |-> IF i < index THEN items[i] ELSE items[i + 1]]

\* The callback of the reduce: (sum, item) => sum.add(item.getSubtotal())
addSubtotal(sum, item) ==
    LET subtotal == getSubtotal(item) IN
    IF ~subtotal.ok THEN subtotal ELSE add(sum, subtotal.value)

RECURSIVE reduce(_, _, _)
\* items.reduce(callback, initial) from the item at index on; acc is the
\* accumulator so far, or the error the callback has thrown.
reduce(items, index, acc) ==
    IF ~acc.ok \/ index > Len(items) THEN acc
    ELSE reduce(items, index + 1, addSubtotal(acc.value, items[index]))

recalculateTotal(this) ==
    LET total == reduce(this.items, 1, zero) IN
    IF total.ok THEN Done([this EXCEPT !.totalAmount = total.value])
    ELSE Fail(this, total.error)

\* Mutant: a placed Order can still be modified.
ensureCanModifyOrPlaced(this) == this.status \in {DRAFT, PLACED}

ensureCanModify(this) == this.status = DRAFT

\* Mutant: addItem refuses the line that would bring the Order to maxItems.
addItemLimitOffByOne(this, productId, quantity, unitPrice) ==
    IF ~ensureCanModify(this) THEN Fail(this, "InvalidState")
    ELSE IF Len(this.items) + 1 >= maxItems THEN Fail(this, "MaxItems")
    ELSE LET index == findIndex(this.items, productId) IN
         IF index # 0
         THEN LET existingItem == this.items[index]
                  changed == changeQuantity(existingItem,
                                            existingItem.quantity + quantity)
              IN  IF ~changed.ok THEN Fail(this, changed.error)
                  ELSE recalculateTotal(
                         [this EXCEPT !.items[index] = changed.value])
         ELSE LET newItem == OrderItem(productId, quantity, unitPrice) IN
              IF ~newItem.ok THEN Fail(this, newItem.error)
              ELSE recalculateTotal(
                     [this EXCEPT !.items = Append(@, newItem.value)])

\* Mutant: a merge replaces the unit price of the line by the argument.
addItemTakesPrice(this, productId, quantity, unitPrice) ==
    IF ~ensureCanModify(this) THEN Fail(this, "InvalidState")
    ELSE IF Len(this.items) >= maxItems THEN Fail(this, "MaxItems")
    ELSE LET index == findIndex(this.items, productId) IN
         IF index # 0
         THEN LET existingItem == this.items[index]
                  changed == changeQuantity(existingItem,
                                            existingItem.quantity + quantity)
              IN  IF ~changed.ok THEN Fail(this, changed.error)
                  ELSE recalculateTotal(
                         [this EXCEPT
                            !.items[index] = [changed.value EXCEPT
                                                 !.unitPrice = unitPrice]])
         ELSE LET newItem == OrderItem(productId, quantity, unitPrice) IN
              IF ~newItem.ok THEN Fail(this, newItem.error)
              ELSE recalculateTotal(
                     [this EXCEPT !.items = Append(@, newItem.value)])

\* Mutant: addItem looks the product up before it looks at maxItems.
addItemLookupFirst(this, productId, quantity, unitPrice) ==
    IF ~ensureCanModify(this) THEN Fail(this, "InvalidState")
    ELSE LET index == findIndex(this.items, productId) IN
         IF index # 0
         THEN LET existingItem == this.items[index]
                  changed == changeQuantity(existingItem,
                                            existingItem.quantity + quantity)
              IN  IF ~changed.ok THEN Fail(this, changed.error)
                  ELSE recalculateTotal(
                         [this EXCEPT !.items[index] = changed.value])
         ELSE IF Len(this.items) >= maxItems THEN Fail(this, "MaxItems")
         ELSE LET newItem == OrderItem(productId, quantity, unitPrice) IN
              IF ~newItem.ok THEN Fail(this, newItem.error)
              ELSE recalculateTotal(
                     [this EXCEPT !.items = Append(@, newItem.value)])

addItem(this, productId, quantity, unitPrice) ==
    IF ~ensureCanModify(this) THEN Fail(this, "InvalidState")
    ELSE IF Len(this.items) >= maxItems THEN Fail(this, "MaxItems")
    ELSE LET index == findIndex(this.items, productId) IN
         IF index # 0
         THEN LET existingItem == this.items[index]
                  changed == changeQuantity(existingItem,
                                            existingItem.quantity + quantity)
              IN  IF ~changed.ok THEN Fail(this, changed.error)
                  ELSE recalculateTotal(
                         [this EXCEPT !.items[index] = changed.value])
         ELSE LET newItem == OrderItem(productId, quantity, unitPrice) IN
              IF ~newItem.ok THEN Fail(this, newItem.error)
              ELSE recalculateTotal(
                     [this EXCEPT !.items = Append(@, newItem.value)])

removeItem(this, productId) ==
    IF ~ensureCanModify(this) THEN Fail(this, "InvalidState")
    ELSE LET index == findIndex(this.items, productId) IN
         IF index = 0 THEN Fail(this, "ItemNotFound")
         ELSE recalculateTotal(
                [this EXCEPT !.items = splice(@, index)])

changeItemQuantity(this, productId, newQuantity) ==
    IF ~ensureCanModify(this) THEN Fail(this, "InvalidState")
    ELSE LET index == findIndex(this.items, productId) IN
         IF index = 0 THEN Fail(this, "ItemNotFound")
         ELSE LET changed == changeQuantity(this.items[index], newQuantity) IN
              IF ~changed.ok THEN Fail(this, changed.error)
              ELSE recalculateTotal(
                     [this EXCEPT !.items[index] = changed.value])

\* Mutant: place does not record the date.
placeWithoutDate(this, now) ==
    IF this.status # DRAFT THEN Fail(this, "InvalidState")
    ELSE IF Len(this.items) = 0 THEN Fail(this, "EmptyOrder")
    ELSE Done([this EXCEPT !.status = PLACED])

\* Mutant: place looks at the items before it looks at the status.
placeItemsFirst(this, now) ==
    IF Len(this.items) = 0 THEN Fail(this, "EmptyOrder")
    ELSE IF this.status # DRAFT THEN Fail(this, "InvalidState")
    ELSE Done([this EXCEPT !.status = PLACED, !.placedAt = <<now>>])

\* Mutant: place does not look at the items.
placeEmpty(this, now) ==
    IF this.status # DRAFT THEN Fail(this, "InvalidState")
    ELSE Done([this EXCEPT !.status = PLACED, !.placedAt = <<now>>])

\* now is the value of new Date()
place(this, now) ==
    IF this.status # DRAFT THEN Fail(this, "InvalidState")
    ELSE IF Len(this.items) = 0 THEN Fail(this, "EmptyOrder")
    ELSE Done([this EXCEPT !.status = PLACED, !.placedAt = <<now>>])

markAsPaid(this) ==
    IF this.status # PLACED THEN Fail(this, "InvalidState")
    ELSE Done([this EXCEPT !.status = PAID])

\* Mutant: an Order that is placed but not paid can be shipped.
shipUnpaid(this) ==
    IF this.status \notin {PLACED, PAID} THEN Fail(this, "InvalidState")
    ELSE Done([this EXCEPT !.status = SHIPPED])

ship(this) ==
    IF this.status # PAID THEN Fail(this, "InvalidState")
    ELSE Done([this EXCEPT !.status = SHIPPED])

\* Mutant: a paid Order that is not shipped can be delivered.
deliverUnshipped(this) ==
    IF this.status \notin {PAID, SHIPPED} THEN Fail(this, "InvalidState")
    ELSE Done([this EXCEPT !.status = DELIVERED])

deliver(this) ==
    IF this.status # SHIPPED THEN Fail(this, "InvalidState")
    ELSE Done([this EXCEPT !.status = DELIVERED])

\* Mutant: a shipped Order can be cancelled.
cancelShipped(this) ==
    IF \/ this.status = DELIVERED
       \/ this.status = CANCELLED
    THEN Fail(this, "InvalidState")
    ELSE Done([this EXCEPT !.status = CANCELLED])

\* Mutant: a delivered Order can be cancelled.
cancelDelivered(this) ==
    IF \/ this.status = SHIPPED
       \/ this.status = CANCELLED
    THEN Fail(this, "InvalidState")
    ELSE Done([this EXCEPT !.status = CANCELLED])

\* Mutant: cancel clears the date the Order was placed at.
cancelClearsPlacedAt(this) ==
    IF \/ this.status = SHIPPED
       \/ this.status = DELIVERED
       \/ this.status = CANCELLED
    THEN Fail(this, "InvalidState")
    ELSE Done([this EXCEPT !.status = CANCELLED, !.placedAt = Undefined])

cancel(this) ==
    IF \/ this.status = SHIPPED
       \/ this.status = DELIVERED
       \/ this.status = CANCELLED
    THEN Fail(this, "InvalidState")
    ELSE Done([this EXCEPT !.status = CANCELLED])

----------------------------------------------------------------------------
(* Bounds and inputs of the model. *)

\* Largest quantity a line is let to reach.
MaxQuantity == 5

ProductIds == {"P1", "P2"}

Quantities == {-1, 0, 1, 2, 3}

Prices == {fromYen(1000).value, Money(10, USD).value}

Dates == {1, 2}

Uuids == {"O1"}

CustomerIds == {"C1"}

Bounded(this) ==
    \A i \in 1..Len(this.items) : this.items[i].quantity <= MaxQuantity

----------------------------------------------------------------------------
(* The state machine: one Order, the calls made on it.  prev is the        *)
(* aggregate as it was when the last call was made, last the call's        *)
(* method and outcome.                                                     *)

\* money while no Money operation is looked at.
NoMoney == [op |-> "none"]

Created ==
    \E uuid \in Uuids, customerId \in CustomerIds :
        /\ order \in {Order(OrderId(uuid).value, customerId),
                      create(customerId, uuid)}
        /\ prev = order
        /\ last = [op |-> "create", error |-> "OK"]

\* repository while no InMemoryOrderRepository is looked at.
NoRepository == [op |-> "none"]

\* snapshot while no getItems result is looked at.
NoSnapshot == [op |-> "none"]

\* pricing while no PricingService is looked at.
NoPricing == [op |-> "none"]

\* customer while no Customer is looked at.
NoCustomer == [op |-> "none"]

\* Only the Order is looked at.
OrderOnly ==
    /\ money = NoMoney
    /\ repository = NoRepository
    /\ snapshot = NoSnapshot
    /\ pricing = NoPricing
    /\ customer = NoCustomer

Init == Created /\ OrderOnly

Call(op, result) ==
    /\ Bounded(result.this)
    /\ order' = result.this
    /\ prev' = order
    /\ last' = [op |-> op, error |-> result.error]
    /\ UNCHANGED <<money, repository, snapshot, pricing, customer>>

AddItem(productId, quantity, unitPrice) ==
    Call("addItem", addItem(order, productId, quantity, unitPrice))

RemoveItem(productId) == Call("removeItem", removeItem(order, productId))

ChangeItemQuantity(productId, newQuantity) ==
    Call("changeItemQuantity", changeItemQuantity(order, productId, newQuantity))

Place(now) == Call("place", place(order, now))

MarkAsPaid == Call("markAsPaid", markAsPaid(order))

Ship == Call("ship", ship(order))

Deliver == Call("deliver", deliver(order))

Cancel == Call("cancel", cancel(order))

NextOver(products, quantities, prices, dates) ==
    \/ \E p \in products, q \in quantities, price \in prices :
          AddItem(p, q, price)
    \/ \E p \in products : RemoveItem(p)
    \/ \E p \in products, q \in quantities : ChangeItemQuantity(p, q)
    \/ \E now \in dates : Place(now)
    \/ MarkAsPaid
    \/ Ship
    \/ Deliver
    \/ Cancel

Next == NextOver(ProductIds, Quantities, Prices, Dates)

Spec == Init /\ [][Next]_vars

----------------------------------------------------------------------------
(* The same Order once it is nearly full: the state reached from a new     *)
(* Order by FillerCount successful addItem calls, one per filler product,  *)
(* which leaves room for the lines of ProductIds up to maxItems.           *)

FillerCount == maxItems - 2

FillerId(n) == "F" \o ToString(n)

\* The Order after addItem(FillerId(i), 1, 1000 yen) for i = 1..n on a new one.
Filled(n) ==
    [Order("O1", "C1") EXCEPT
        !.items = [i \in 1..n |->
                     OrderItem(FillerId(i), 1, fromYen(1000).value).value],
        !.totalAmount = fromYen(1000 * n).value]

FullQuantities == {0, 1, 2}

FullPrices == {fromYen(1000).value}

FullDates == {1}

InitFull ==
    /\ order = Filled(FillerCount)
    /\ prev = Filled(FillerCount - 1)
    /\ last = [op |-> "addItem", error |-> "OK"]
    /\ OrderOnly

NextFull == NextOver(ProductIds, FullQuantities, FullPrices, FullDates)

SpecFull == InitFull /\ [][NextFull]_vars

----------------------------------------------------------------------------
(* What the claims speak of. *)

Modifiers == {"addItem", "removeItem", "changeItemQuantity"}

RECURSIVE SumOfSubtotals(_)
\* The sum over the lines of unit price amount x quantity.
SumOfSubtotals(items) ==
    IF items = <<>> THEN 0
    ELSE Head(items).unitPrice.amount * Head(items).quantity
         + SumOfSubtotals(Tail(items))

\* C1: in every reachable state the Order's total equals the sum of the
\* subtotals (unit price x quantity) of the lines it holds, in the total's
\* currency.
C1_TotalIsSumOfSubtotals ==
    /\ order.totalAmount.amount = SumOfSubtotals(order.items)
    /\ \A i \in 1..Len(order.items) :
          order.items[i].unitPrice.currency = order.totalAmount.currency

\* C2: a call that ends in an error leaves the whole aggregate (lines,
\* quantities, status, total, timestamp) as it was before the call.
C2_ErrorLeavesAggregateUnchanged ==
    last.error # "OK" => order = prev

\* C3: addItem, removeItem and changeItemQuantity on an Order that is not
\* draft fail with InvalidState for every argument (also a missing product
\* or a quantity below 1) and leave the aggregate unchanged.
C3_ModifyOutsideDraftIsInvalidState ==
    (last.op \in Modifiers /\ prev.status # DRAFT) =>
        (last.error = "InvalidState" /\ order = prev)

\* C3 witness: removeItem on an empty cancelled Order (no line can match)
\* has failed with InvalidState.
C3_Witness ==
    /\ last.op = "removeItem"
    /\ prev.status = CANCELLED
    /\ prev.items = <<>>
    /\ last.error = "InvalidState"

\* The step from `from` to `to` that changes the status and nothing else.
OnlyStatus(to) == [prev EXCEPT !.status = to]

Transition(op, from, to) ==
    last.op = op =>
        IF prev.status = from
        THEN last.error = "OK" /\ order = OnlyStatus(to)
        ELSE last.error = "InvalidState" /\ order = prev

\* C4: markAsPaid succeeds exactly from placed (to paid), ship exactly from
\* paid (to shipped), deliver exactly from shipped (to delivered); in any
\* other status each fails with InvalidState and changes nothing; none of
\* them changes the lines or the total.
C4_PaidShippedDelivered ==
    /\ Transition("markAsPaid", PLACED, PAID)
    /\ Transition("ship", PAID, SHIPPED)
    /\ Transition("deliver", SHIPPED, DELIVERED)

\* C4 witness: deliver has succeeded on a shipped Order.
C4_Witness ==
    /\ last.op = "deliver"
    /\ last.error = "OK"
    /\ prev.status = SHIPPED
    /\ order.status = DELIVERED

\* C5: cancel succeeds from draft, placed and paid and sets the status to
\* cancelled; from shipped, delivered and cancelled it fails with
\* InvalidState and leaves the status unchanged.
C5_Cancel ==
    last.op = "cancel" =>
        IF prev.status \in {DRAFT, PLACED, PAID}
        THEN last.error = "OK" /\ order.status = CANCELLED
        ELSE last.error = "InvalidState" /\ order.status = prev.status

\* C5 witness: cancel has succeeded on a paid Order.
C5_Witness ==
    /\ last.op = "cancel"
    /\ last.error = "OK"
    /\ prev.status = PAID
    /\ order.status = CANCELLED

\* C6: place on a draft Order with at least one line succeeds: the status
\* becomes placed, the timestamp is recorded, lines and total are unchanged;
\* place on an Order that is not draft fails with InvalidState.
C6_Place ==
    last.op = "place" =>
        /\ (prev.status = DRAFT /\ Len(prev.items) >= 1) =>
              /\ last.error = "OK"
              /\ order.status = PLACED
              /\ \E now \in Dates : order.placedAt = <<now>>
              /\ order.items = prev.items
              /\ order.totalAmount = prev.totalAmount
        /\ prev.status # DRAFT => last.error = "InvalidState"

\* C6 witness: place has succeeded on a draft Order with two lines.
C6_Witness ==
    /\ last.op = "place"
    /\ last.error = "OK"
    /\ prev.status = DRAFT
    /\ Len(prev.items) = 2
    /\ order.status = PLACED

\* C7 as stated: place on an Order with no line fails with EmptyOrder
\* whatever the status, and never changes the status.
C7_Original ==
    (last.op = "place" /\ Len(prev.items) = 0) =>
        (last.error = "EmptyOrder" /\ order.status = prev.status)

\* C7 amended: place on an Order with no line fails with EmptyOrder when the
\* Order is draft and with InvalidState when it is not (an empty Order
\* cancelled from draft); in both cases nothing changes.
C7_PlaceEmpty ==
    (last.op = "place" /\ Len(prev.items) = 0) =>
        /\ last.error = IF prev.status = DRAFT THEN "EmptyOrder"
                        ELSE "InvalidState"
        /\ order = prev

\* C7 witness: place has failed with InvalidState on an empty cancelled Order.
C7_Witness ==
    /\ last.op = "place"
    /\ prev.items = <<>>
    /\ prev.status = CANCELLED
    /\ last.error = "InvalidState"

\* C8 as stated: an Order that is not draft holds at least one line.
C8_Original ==
    order.status # DRAFT => Len(order.items) >= 1

\* C8 amended: an Order that is placed, paid, shipped or delivered, or that
\* was cancelled after it was placed, holds at least one line; only an Order
\* cancelled straight from draft can be empty.
C8_PlacedOrderHasLines ==
    (\/ order.status \in {PLACED, PAID, SHIPPED, DELIVERED}
     \/ order.status = CANCELLED /\ order.placedAt # Undefined) =>
        Len(order.items) >= 1

\* C8 witness: an Order cancelled after it was placed.
C8_Witness ==
    /\ order.status = CANCELLED
    /\ order.placedAt # Undefined
    /\ Len(order.items) >= 1
    /\ last.op = "cancel"

\* C9: once the status is delivered or cancelled every call fails and the
\* aggregate never changes again.
C9_Terminal ==
    prev.status \in {DELIVERED, CANCELLED} =>
        (last.error # "OK" /\ order = prev)

\* C9 witness: cancel has failed on a delivered Order.
C9_Witness ==
    /\ prev.status = DELIVERED
    /\ last.op = "cancel"
    /\ last.error = "InvalidState"
    /\ order.status = DELIVERED

\* What addItem(p, q, price) is to do to the lines: add q to the quantity
\* of the line of p when there is one, append the line (p, q, price) when
\* there is none, and leave every other line alone.
MergedOrAppended(before, after, p, q, price) ==
    IF \E i \in 1..Len(before) : before[i].productId = p
    THEN /\ Len(after) = Len(before)
         /\ \A i \in 1..Len(before) :
               after[i] = IF before[i].productId = p
                          THEN [before[i] EXCEPT !.quantity = @ + q]
                          ELSE before[i]
    ELSE after = before \o
                 <<[productId |-> p, quantity |-> q, unitPrice |-> price]>>

\* The arguments addItem is called with on the nearly full Order.
FullAddItemArguments == ProductIds \X FullQuantities \X FullPrices

\* C10 as stated: addItem(p, q, price) with q >= 1 on a draft Order adds q to
\* the quantity of the line of p, or appends the line (p, q, price) when p
\* has no line; every other line is unchanged.
C10_Original ==
    [][\A a \in FullAddItemArguments :
          (/\ last'.op = "addItem"
           /\ order.status = DRAFT
           /\ a[2] >= 1
           /\ AddItem(a[1], a[2], a[3])) =>
              MergedOrAppended(order.items, order'.items, a[1], a[2], a[3])]_vars

\* C10 amended: the same, on a draft Order that holds fewer than maxItems
\* lines.
C10_AddItemMergesOrAppends ==
    [][\A a \in FullAddItemArguments :
          (/\ last'.op = "addItem"
           /\ order.status = DRAFT
           /\ Len(order.items) < maxItems
           /\ a[2] >= 1
           /\ AddItem(a[1], a[2], a[3])) =>
              MergedOrAppended(order.items, order'.items, a[1], a[2], a[3])]_vars

\* C10 witness: addItem has added to the quantity of a line of an Order that
\* holds fewer than maxItems lines, and no line was appended.
C10_Witness ==
    /\ last.op = "addItem"
    /\ last.error = "OK"
    /\ prev.status = DRAFT
    /\ Len(prev.items) < maxItems
    /\ Len(order.items) = Len(prev.items)
    /\ \E i \in 1..Len(order.items) :
          order.items[i].quantity > prev.items[i].quantity

\* The arguments addItem is called with.
AddItemArguments == ProductIds \X Quantities \X Prices

\* Every line of the Order is priced in the currency of its total.
OneCurrency(this) ==
    \A i \in 1..Len(this.items) :
        this.items[i].unitPrice.currency = this.totalAmount.currency

\* C11: addItem with a quantity below 1 on a draft Order fails with
\* InvalidQuantity and leaves the Order unchanged, whether or not the product
\* already has a line.  (Stated for Orders whose lines are all in the
\* Order's currency, so that no currency error is involved.)
C11_QuantityBelowOneIsRejected ==
    [][\A a \in AddItemArguments :
          (/\ last'.op = "addItem"
           /\ order.status = DRAFT
           /\ OneCurrency(order)
           /\ a[2] < 1
           /\ AddItem(a[1], a[2], a[3])) =>
              (last'.error = "InvalidQuantity" /\ order' = order)]_vars

\* The arguments addItem is called with, on the new and on the nearly full
\* Order.
AllAddItemArguments == AddItemArguments \cup FullAddItemArguments

Without(items, index) ==
    SubSeq(items, 1, index - 1) \o SubSeq(items, index + 1, Len(items))

\* C13: removeItem(p) on a draft Order fails with ItemNotFound and leaves
\* lines and total unchanged when no line matches p; when a line matches it
\* removes exactly that line and the total becomes the sum of the remaining
\* subtotals (zero when no line remains).
C13_RemoveItem ==
    [][\A p \in ProductIds :
          (/\ last'.op = "removeItem"
           /\ order.status = DRAFT
           /\ RemoveItem(p)) =>
              IF \A i \in 1..Len(order.items) : order.items[i].productId # p
              THEN /\ last'.error = "ItemNotFound"
                   /\ order'.items = order.items
                   /\ order'.totalAmount = order.totalAmount
              ELSE /\ \E i \in 1..Len(order.items) :
                         /\ order.items[i].productId = p
                         /\ order'.items = Without(order.items, i)
                   /\ order'.totalAmount.amount = SumOfSubtotals(order'.items)
                   /\ OneCurrency(order')]_vars

\* C14: placedAt is written only by a successful place: it is undefined
\* from creation until the first successful place, that call sets it, and
\* no other call (addItem, removeItem, changeItemQuantity, markAsPaid, ship,
\* deliver, cancel, a failing place) sets, changes or clears it.
C14_PlacedAtWrittenOnlyByPlace ==
    /\ last.op = "create" => order.placedAt = Undefined
    /\ (last.op = "place" /\ last.error = "OK") =>
           /\ prev.placedAt = Undefined
           /\ \E now \in Dates : order.placedAt = <<now>>
    /\ (last.op # "create" /\ ~(last.op = "place" /\ last.error = "OK")) =>
           order.placedAt = prev.placedAt

\* C14 witness: cancel has succeeded on a placed Order, whose date it kept.
C14_Witness ==
    /\ last.op = "cancel"
    /\ last.error = "OK"
    /\ prev.status = PLACED
    /\ prev.placedAt # Undefined
    /\ order.placedAt = prev.placedAt

\* C15 as stated: placedAt is undefined while the status is draft and
\* defined whenever the status is placed, paid, shipped, delivered or
\* cancelled.
C15_Original ==
    (order.status = DRAFT) <=> (order.placedAt = Undefined)

\* C15 amended: placedAt is undefined while the status is draft and defined
\* whenever the status is placed, paid, shipped or delivered; a cancelled
\* Order has it exactly when it was placed before it was cancelled (an Order
\* cancelled straight from draft has none).
C15_PlacedAtPresentOncePlaced ==
    /\ order.status = DRAFT => order.placedAt = Undefined
    /\ order.status \in {PLACED, PAID, SHIPPED, DELIVERED} =>
           order.placedAt # Undefined
    /\ order.status = CANCELLED =>
           IF last.op = "cancel" /\ last.error = "OK"
           THEN (order.placedAt # Undefined) <=> (prev.status # DRAFT)
           ELSE prev.status = CANCELLED /\ order.placedAt = prev.placedAt

\* C15 witness: an Order cancelled straight from draft, without a date.
C15_Witness ==
    /\ last.op = "cancel"
    /\ last.error = "OK"
    /\ prev.status = DRAFT
    /\ order.status = CANCELLED
    /\ order.placedAt = Undefined

\* The line of the scenario: product P1 at 1000 JPY.
ScenarioLine(quantity) ==
    [productId |-> "P1", quantity |-> quantity,
     unitPrice |-> [amount |-> 1000, currency |-> <<"J", "P", "Y">>]]

\* The Order of the scenario, written out field by field.
ScenarioOrder(status, items, amount, placedAt) ==
    [id |-> "O1", customerId |-> "C1", items |-> items, status |-> status,
     totalAmount |-> [amount |-> amount, currency |-> <<"J", "P", "Y">>],
     placedAt |-> placedAt]

\* C16: create -> addItem(P1, 2, 1000 JPY) -> addItem(P1, 3, 1000 JPY) ->
\* place -> cancel -> place: after the second addItem there is one line of
\* quantity 5 and the total is 5000 JPY; the first place sets the status
\* placed and the date; cancel sets the status cancelled; the last place
\* fails with InvalidState and the status stays cancelled.
C16_Scenario ==
    [][/\ (/\ last'.op = "addItem"
           /\ order = ScenarioOrder("DRAFT", <<>>, 0, <<>>)
           /\ AddItem("P1", 2, ScenarioLine(1).unitPrice)) =>
              /\ last'.error = "OK"
              /\ order' = ScenarioOrder("DRAFT", <<ScenarioLine(2)>>, 2000,
                                        <<>>)
       /\ (/\ last'.op = "addItem"
           /\ order = ScenarioOrder("DRAFT", <<ScenarioLine(2)>>, 2000, <<>>)
           /\ AddItem("P1", 3, ScenarioLine(1).unitPrice)) =>
              /\ last'.error = "OK"
              /\ order' = ScenarioOrder("DRAFT", <<ScenarioLine(5)>>, 5000,
                                        <<>>)
       /\ \A now \in Dates :
              (/\ last'.op = "place"
               /\ order = ScenarioOrder("DRAFT", <<ScenarioLine(5)>>, 5000,
                                        <<>>)
               /\ Place(now)) =>
                  /\ last'.error = "OK"
                  /\ order' = ScenarioOrder("PLACED", <<ScenarioLine(5)>>,
                                            5000, <<now>>)
       /\ \A now \in Dates :
              (/\ last'.op = "cancel"
               /\ order = ScenarioOrder("PLACED", <<ScenarioLine(5)>>, 5000,
                                        <<now>>)
               /\ Cancel) =>
                  /\ last'.error = "OK"
                  /\ order' = ScenarioOrder("CANCELLED", <<ScenarioLine(5)>>,
                                            5000, <<now>>)
       /\ \A now \in Dates, again \in Dates :
              (/\ last'.op = "place"
               /\ order = ScenarioOrder("CANCELLED", <<ScenarioLine(5)>>,
                                        5000, <<now>>)
               /\ Place(again)) =>
                  /\ last'.error = "InvalidState"
                  /\ order' = order]_vars

\* C16 witness: the end of the scenario, the last place has failed on the
\* cancelled Order of one line P1 x 5.
C16_Witness ==
    /\ last = [op |-> "place", error |-> "InvalidState"]
    /\ \E now \in Dates :
          order = ScenarioOrder("CANCELLED", <<ScenarioLine(5)>>, 5000,
                                <<now>>)
    /\ prev = order

\* C17: a newly created Order (constructor or Order.create) has status
\* draft, no line, a total of zero and no date.
C17_NewOrder ==
    last.op = "create" =>
        /\ order.status = "DRAFT"
        /\ order.items = <<>>
        /\ order.totalAmount.amount = 0
        /\ order.placedAt = <<>>

\* C17 witness: the Order as the constructor leaves it, no call made yet.
C17_Witness ==
    /\ last.op = "create"
    /\ order.id \in Uuids
    /\ order.customerId \in CustomerIds

\* C18: every line's quantity is at least 1: OrderItem construction and
\* changeQuantity fail with InvalidQuantity for a quantity below 1, a call
\* that fails so leaves the Order as it was, and no sequence of addItem and
\* changeItemQuantity calls, negative quantities included, produces a line
\* of quantity below 1.
C18_QuantityAtLeastOne ==
    /\ \A i \in 1..Len(order.items) : order.items[i].quantity >= 1
    /\ last.error = "InvalidQuantity" => order = prev
    /\ \A q \in Quantities :
          q < 1 =>
             /\ \A p \in ProductIds, price \in Prices :
                   OrderItem(p, q, price) = Throw("InvalidQuantity")
             /\ \A i \in 1..Len(order.items) :
                   changeQuantity(order.items[i], q) =
                       Throw("InvalidQuantity")

\* C18 witness: changeItemQuantity has failed with InvalidQuantity on an
\* Order that holds the line.
C18_Witness ==
    /\ last = [op |-> "changeItemQuantity", error |-> "InvalidQuantity"]
    /\ Len(order.items) >= 1

----------------------------------------------------------------------------
(* The Money value object on its own: money is the last Money call, the    *)
(* value it was made on (this), its argument and its outcome.  A method is *)
(* called on the value the call before has returned.                       *)

\* Largest amount a Money is let to reach.
MaxAmount == 6

Amounts == {-1, 0, 1, 2}

CurrencyCodes ==
    {JPY, <<"u", "s", "d">>, <<"U", "S">>, <<>>, <<"j", "p", "y", "n">>}

\* -1, 0, 1/2, 1, 3/2, 2
Factors ==
    {[num |-> -1, den |-> 1], [num |-> 0, den |-> 1], [num |-> 1, den |-> 2],
     [num |-> 1, den |-> 1], [num |-> 3, den |-> 2], [num |-> 2, den |-> 1]}

\* The Money values the constructor builds from the inputs.
Moneys ==
    {Money(amount, currency).value :
        <<amount, currency>> \in
            {ac \in Amounts \X CurrencyCodes : Money(ac[1], ac[2]).ok}}

MoneyCall(op, this, arg, result) ==
    /\ result.ok => result.value.amount <= MaxAmount
    /\ money' = [op |-> op, this |-> this, arg |-> arg, result |-> result]
    /\ UNCHANGED <<order, prev, last, repository, snapshot, pricing, customer>>

\* The call before has returned a Money.
HasMoney ==
    /\ money.op \notin {"none", "equals", "greaterThan"}
    /\ money.result.ok

NewMoney(amount, currency) ==
    MoneyCall("new", Undefined, <<amount, currency>>, Money(amount, currency))

Zero == MoneyCall("zero", Undefined, <<>>, zero)

FromYen(amount) == MoneyCall("fromYen", Undefined, amount, fromYen(amount))

Add(other) ==
    /\ HasMoney
    /\ MoneyCall("add", money.result.value, other,
                 add(money.result.value, other))

Subtract(other) ==
    /\ HasMoney
    /\ MoneyCall("subtract", money.result.value, other,
                 subtract(money.result.value, other))

Multiply(multiplier) ==
    /\ HasMoney
    /\ MoneyCall("multiply", money.result.value, multiplier,
                 multiply(money.result.value, multiplier))

NextMoney ==
    \/ \E amount \in Amounts, currency \in CurrencyCodes :
          NewMoney(amount, currency)
    \/ Zero
    \/ \E amount \in Amounts : FromYen(amount)
    \/ \E other \in Moneys : Add(other)
    \/ \E other \in Moneys : Subtract(other)
    \/ \E multiplier \in Factors : Multiply(multiplier)

SpecMoney == Init /\ [][NextMoney]_vars

\* C19: every Money that exists, built by the constructor, zero or fromYen
\* or returned by add, subtract or multiply, has amount >= 0; a call that
\* would yield a negative amount fails instead of returning a value.
C19_AmountNeverNegative ==
    money.op # "none" =>
        /\ money.result.ok => money.result.value.amount >= 0
        /\ money.this # Undefined => money.this.amount >= 0
        /\ (money.op = "new" /\ money.arg[1] < 0) => ~money.result.ok
        /\ (money.op = "fromYen" /\ money.arg < 0) => ~money.result.ok
        /\ (money.op = "subtract"
               /\ money.this.amount - money.arg.amount < 0) =>
              ~money.result.ok
        /\ (money.op = "multiply"
               /\ money.this.amount * money.arg.num < 0) =>
              ~money.result.ok

\* C19 witness: subtract of a larger amount in the same currency has failed
\* with NegativeResult.
C19_Witness ==
    /\ money.op = "subtract"
    /\ money.this.currency = money.arg.currency
    /\ money.this.amount < money.arg.amount
    /\ money.result = Throw("NegativeResult")

\* C20: add and subtract fail with CurrencyMismatch whenever the two
\* currency codes differ, whatever the amounts, also when the subtraction
\* would be negative; with equal currencies add returns the sum of the
\* amounts in that currency.
C20_CurrencyMismatch ==
    money.op \in {"add", "subtract"} =>
        /\ money.this.currency # money.arg.currency =>
              money.result = Throw("CurrencyMismatch")
        /\ (money.op = "add" /\ money.this.currency = money.arg.currency) =>
              money.result =
                  Return([amount |-> money.this.amount + money.arg.amount,
                          currency |-> money.this.currency])

\* C20 witness: subtract of a larger amount in another currency has failed
\* with CurrencyMismatch.
C20_Witness ==
    /\ money.op = "subtract"
    /\ money.this.currency # money.arg.currency
    /\ money.this.amount < money.arg.amount
    /\ money.result = Throw("CurrencyMismatch")

\* C21: for two Money values of the same currency subtract fails with
\* NegativeResult exactly when the other amount is the greater one;
\* otherwise it returns the difference in the same currency (zero when the
\* amounts are equal).
C21_Subtract ==
    (money.op = "subtract" /\ money.this.currency = money.arg.currency) =>
        IF money.arg.amount > money.this.amount
        THEN money.result = Throw("NegativeResult")
        ELSE money.result =
                 Return([amount |-> money.this.amount - money.arg.amount,
                         currency |-> money.this.currency])

\* C21 witness: subtract of an equal amount, not zero, has returned zero.
C21_Witness ==
    /\ money.op = "subtract"
    /\ money.this.currency = money.arg.currency
    /\ money.this.amount = money.arg.amount
    /\ money.this.amount > 0
    /\ money.result.ok
    /\ money.result.value.amount = 0

C24_Constructor ==
    money.op = "new" =>
        IF money.arg[1] < 0
        THEN money.result = Throw("InvalidAmount")
        ELSE IF Len(money.arg[2]) # 3
        THEN money.result = Throw("InvalidCurrency")
        ELSE money.result.ok /\ money.result.value.amount = money.arg[1]

\* C24 witness: a negative amount with a code of two characters has failed
\* with InvalidAmount.
C24_Witness ==
    /\ money.op = "new"
    /\ money.arg[1] < 0
    /\ Len(money.arg[2]) = 2
    /\ money.result = Throw("InvalidAmount")

----------------------------------------------------------------------------
(* Money with its comparisons.  A comparison returns a boolean, so the     *)
(* call after it is a constructor.                                         *)

Equals(other) ==
    /\ HasMoney
    /\ money' = [op |-> "equals", this |-> money.result.value,
                 arg |-> other,
                 result |-> Return(equals(money.result.value, other))]
    /\ UNCHANGED <<order, prev, last, repository, snapshot, pricing, customer>>

GreaterThan(other) ==
    /\ HasMoney
    /\ money' = [op |-> "greaterThan", this |-> money.result.value,
                 arg |-> other,
                 result |-> greaterThan(money.result.value, other)]
    /\ UNCHANGED <<order, prev, last, repository, snapshot, pricing, customer>>

NextCompare ==
    \/ NextMoney
    \/ \E other \in Moneys : Equals(other)
    \/ \E other \in Moneys : GreaterThan(other)

SpecCompare == Init /\ [][NextCompare]_vars

\* C23: equals returns true exactly when amount and currency are both
\* equal, so it returns false, without error, for values of different
\* currencies; greaterThan fails with CurrencyMismatch when the currencies
\* differ and otherwise returns whether this amount is strictly the greater.
C23_Comparisons ==
    /\ money.op = "equals" =>
           /\ money.result.ok
           /\ money.result.value <=>
                  (/\ money.this.amount = money.arg.amount
                   /\ money.this.currency = money.arg.currency)
           /\ money.this.currency # money.arg.currency =>
                  money.result = Return(FALSE)
    /\ money.op = "greaterThan" =>
           IF money.this.currency # money.arg.currency
           THEN money.result = Throw("CurrencyMismatch")
           ELSE money.result = Return(money.this.amount > money.arg.amount)

\* C23 witness: equals of the same amount in another currency has returned
\* false.
C23_Witness ==
    /\ money.op = "equals"
    /\ money.this.amount = money.arg.amount
    /\ money.this.currency # money.arg.currency
    /\ money.result = Return(FALSE)

----------------------------------------------------------------------------
(* InMemoryOrderRepository.  The Map orders is the sequence of its entries *)
(* [key, value] in insertion order; a value is a reference to an Order, an *)
(* index of the heap of Order instances.  repository holds the heap, the   *)
(* Map, the last call with its argument and result, and lastSaved, which   *)
(* remembers for each key the instance the last save of that key was given *)
(* (<<>> when the key was never saved, or deleted or cleared since).       *)

\* Map.prototype.has(key)
MapHas(map, key) == \E i \in 1..Len(map) : map[i].key = key

\* Map.prototype.get(key): <<value>>, or <<>> for undefined.
MapGet(map, key) ==
    IF MapHas(map, key)
    THEN <<map[CHOOSE i \in 1..Len(map) : map[i].key = key].value>>
    ELSE Undefined

\* Mutant: set always adds an entry.
MapSetAppends(map, key, value) ==
    Append(map, [key |-> key, value |-> value])

\* Map.prototype.set(key, value): an existing key keeps its place.
MapSet(map, key, value) ==
    IF MapHas(map, key)
    THEN [i \in 1..Len(map) |->
             IF map[i].key = key THEN [key |-> key, value |-> value]
             ELSE map[i]]
    ELSE Append(map, [key |-> key, value |-> value])

\* Mutant: delete removes every entry.
MapDeleteAll(map, key) == <<>>

\* Map.prototype.delete(key)
MapDelete(map, key) ==
    LET Keep(entry) == entry.key # key IN SelectSeq(map, Keep)

\* Map.prototype.values(), in insertion order
MapValues(map) == [i \in 1..Len(map) |-> map[i].value]

\* OrderId.toString / CustomerId.toString: an id is its string value.
toString(id) == id

CustomerIdEquals(this, other) == this = other

\* save(order): instance is the reference of the Order, an index of heap.
save(orders, heap, instance) ==
    MapSet(orders, toString(heap[instance].id), instance)

\* Mutant: findById finds nothing under a key that holds an Order.
findByIdNothing(orders, id) == Undefined

\* findById(id): <<instance>> for the Order found, or <<>> for null.
findById(orders, id) == MapGet(orders, toString(id))

\* Mutant: findByCustomerId returns every stored Order.
findByCustomerIdAll(orders, heap, customerId) == MapValues(orders)

findByCustomerId(orders, heap, customerId) ==
    LET Matches(instance) ==
            CustomerIdEquals(heap[instance].customerId, customerId)
    IN  SelectSeq(MapValues(orders), Matches)

delete(orders, id) == MapDelete(orders, toString(id))

clear(orders) == <<>>

size(orders) == Len(orders)

\* The Order instances that exist: two of them carry the same id.
Instances ==
    <<Order("O1", "C1"), Order("O1", "C2"), Order("O2", "C1"),
      Order("O3", "C2")>>

\* The ids looked up and deleted; no instance carries O4.
LookupIds == {"O1", "O2", "O3", "O4"}

\* The customers looked up; no instance belongs to C3.
LookupCustomerIds == {"C1", "C2", "C3"}

InitRepository ==
    /\ Created
    /\ money = NoMoney
    /\ snapshot = NoSnapshot
    /\ pricing = NoPricing
    /\ customer = NoCustomer
    /\ repository = [heap |-> Instances, orders |-> <<>>,
                     lastSaved |-> [id \in LookupIds |-> Undefined],
                     op |-> "new", arg |-> Undefined, result |-> Undefined]

RepositoryCall(op, arg, orders, lastSaved, result) ==
    /\ repository' = [heap |-> repository.heap, orders |-> orders,
                      lastSaved |-> lastSaved,
                      op |-> op, arg |-> arg, result |-> result]
    /\ UNCHANGED <<order, prev, last, money, snapshot, pricing, customer>>

Save(instance) ==
    RepositoryCall("save", instance,
                   save(repository.orders, repository.heap, instance),
                   [repository.lastSaved EXCEPT
                       ![repository.heap[instance].id] = <<instance>>],
                   Undefined)

FindById(id) ==
    RepositoryCall("findById", id, repository.orders, repository.lastSaved,
                   findById(repository.orders, id))

FindByCustomerId(customerId) ==
    RepositoryCall("findByCustomerId", customerId, repository.orders,
                   repository.lastSaved,
                   findByCustomerId(repository.orders, repository.heap,
                                    customerId))

Delete(id) ==
    RepositoryCall("delete", id, delete(repository.orders, id),
                   [repository.lastSaved EXCEPT ![id] = Undefined],
                   Undefined)

Clear ==
    RepositoryCall("clear", Undefined, clear(repository.orders),
                   [id \in LookupIds |-> Undefined], Undefined)

Size ==
    RepositoryCall("size", Undefined, repository.orders,
                   repository.lastSaved, size(repository.orders))

NextRepository ==
    \/ \E instance \in DOMAIN Instances : Save(instance)
    \/ \E id \in LookupIds : FindById(id)
    \/ \E customerId \in LookupCustomerIds : FindByCustomerId(customerId)
    \/ \E id \in LookupIds : Delete(id)
    \/ Clear
    \/ Size

SpecRepository == InitRepository /\ [][NextRepository]_vars

\* C25: after save(order), findById(order.id) returns an Order with the id
\* of the saved one, whatever was saved or deleted under other ids since;
\* findById of an id that was never saved, or was deleted after its last
\* save, returns null.
C25_SaveThenFindById ==
    /\ repository.op = "save" =>
           findById(repository.orders,
                    repository.heap[repository.arg].id) = <<repository.arg>>
    /\ repository.op = "findById" =>
           IF repository.lastSaved[repository.arg] # Undefined
           THEN /\ repository.result # Undefined
                /\ repository.heap[repository.result[1]].id = repository.arg
           ELSE repository.result = Undefined

\* C25 witness: findById has found an Order while two Orders are stored.
C25_Witness ==
    /\ repository.op = "findById"
    /\ repository.result # Undefined
    /\ size(repository.orders) = 2

\* C26: save inserts or overwrites the entry under the Order's id: saving
\* the Order that is already stored leaves the store as it is; saving under
\* an id that is already stored replaces the entry and keeps the number of
\* entries; entries under other ids are not affected.
C26_Save ==
    [][\A instance \in DOMAIN Instances :
          (repository'.op = "save" /\ Save(instance)) =>
              LET id == repository.heap[instance].id
                  before == repository.orders
                  after == repository'.orders
              IN  /\ findById(after, id) = <<instance>>
                  /\ \A other \in LookupIds \ {id} :
                        findById(after, other) = findById(before, other)
                  /\ size(after) =
                        IF MapHas(before, id) THEN size(before)
                        ELSE size(before) + 1
                  /\ findById(before, id) = <<instance>> => after = before
                  /\ repository'.result = Undefined]_vars

\* C26 witness: save has replaced the first of two entries (a new entry
\* would be the last one).
C26_Witness ==
    /\ repository.op = "save"
    /\ size(repository.orders) = 2
    /\ repository.orders[1].value = repository.arg

\* C27: delete(id) removes the entry under id when there is one and does
\* nothing when there is none; in both cases it raises no error, findById(id)
\* is null afterwards and every entry under another id is unchanged.
C27_Delete ==
    [][\A id \in LookupIds :
          (repository'.op = "delete" /\ Delete(id)) =>
              LET before == repository.orders
                  after == repository'.orders
              IN  /\ findById(after, id) = Undefined
                  /\ \A other \in LookupIds \ {id} :
                        findById(after, other) = findById(before, other)
                  /\ size(after) =
                        IF MapHas(before, id) THEN size(before) - 1
                        ELSE size(before)
                  /\ ~MapHas(before, id) => after = before
                  /\ repository'.result = Undefined]_vars

\* C27 witness: delete of an id that no Order carries, with three Orders
\* stored.
C27_Witness ==
    /\ repository.op = "delete"
    /\ repository.arg = "O4"
    /\ size(repository.orders) = 3

\* How many times instance is in the array result.
Occurrences(result, instance) ==
    Cardinality({i \in 1..Len(result) : result[i] = instance})

\* C28: findByCustomerId(c) returns exactly the stored Orders of customer
\* c: each Order that was last saved under its id and belongs to c is in the
\* result once, no Order of another customer and no deleted or replaced
\* Order is in it, and it is empty when none matches; the call leaves the
\* store unchanged.
C28_FindByCustomerId ==
    [][\A customerId \in LookupCustomerIds :
          (/\ repository'.op = "findByCustomerId"
           /\ FindByCustomerId(customerId)) =>
              /\ repository'.orders = repository.orders
              /\ \A instance \in DOMAIN Instances :
                    Occurrences(repository'.result, instance) =
                        IF /\ repository.lastSaved[Instances[instance].id] =
                                 <<instance>>
                           /\ Instances[instance].customerId = customerId
                        THEN 1
                        ELSE 0]_vars

\* C28 witness: findByCustomerId has returned two of the three stored
\* Orders.
C28_Witness ==
    /\ repository.op = "findByCustomerId"
    /\ size(repository.orders) = 3
    /\ Len(repository.result) = 2

\* C29: changeItemQuantity(p, n) on a draft Order fails with ItemNotFound
\* when no line matches p, whatever n is; when a line matches and n < 1 it
\* fails with InvalidQuantity; when a line matches and n >= 1 it sets that
\* line's quantity to n, leaves every other line and the number of lines
\* unchanged, and recomputes the total.
C29_ChangeItemQuantity ==
    [][\A p \in ProductIds, n \in Quantities :
          (/\ last'.op = "changeItemQuantity"
           /\ order.status = DRAFT
           /\ ChangeItemQuantity(p, n)) =>
              IF \A i \in 1..Len(order.items) : order.items[i].productId # p
              THEN last'.error = "ItemNotFound" /\ order' = order
              ELSE IF n < 1
              THEN last'.error = "InvalidQuantity" /\ order' = order
              ELSE /\ last'.error = "OK"
                   /\ \E i \in 1..Len(order.items) :
                         /\ order.items[i].productId = p
                         /\ order'.items =
                               [order.items EXCEPT ![i].quantity = n]
                   /\ order'.totalAmount.amount = SumOfSubtotals(order'.items)
                   /\ OneCurrency(order')]_vars

\* C30: no two lines of an Order carry the same product: after any sequence
\* of addItem, removeItem and changeItemQuantity calls there is at most one
\* line per product.
C30_OneLinePerProduct ==
    \A i \in 1..Len(order.items), j \in 1..Len(order.items) :
        ProductIdEquals(order.items[i].productId, order.items[j].productId)
            => i = j

\* C30 witness: addItem has merged into one of the two lines of the Order.
C30_Witness ==
    /\ last = [op |-> "addItem", error |-> "OK"]
    /\ Len(prev.items) = 2
    /\ Len(order.items) = 2
    /\ order.items # prev.items

\* The changes of status an Order is let to make.
StatusChanges ==
    {<<DRAFT, PLACED>>, <<PLACED, PAID>>, <<PAID, SHIPPED>>,
     <<SHIPPED, DELIVERED>>, <<DRAFT, CANCELLED>>, <<PLACED, CANCELLED>>,
     <<PAID, CANCELLED>>}

RECURSIVE StatusAfter(_)
\* The statuses n changes of status lead to from draft, each change one of
\* StatusChanges.
StatusAfter(n) ==
    IF n = 0 THEN {DRAFT}
    ELSE LET before == StatusAfter(n - 1)
         IN  {change[2] : change \in
                 {c \in StatusChanges : c[1] \in before}}

\* The statuses 0, 1, ... 5 changes of status lead to from draft.
StatusChains == [n \in 0..5 |-> StatusAfter(n)]

\* How far along draft -> placed -> paid -> shipped -> delivered a status
\* is; cancelled is beyond all of them.
StatusRank(status) ==
    CASE status = DRAFT -> 0
      [] status = PLACED -> 1
      [] status = PAID -> 2
      [] status = SHIPPED -> 3
      [] status = DELIVERED -> 4
      [] status = CANCELLED -> 5

\* C31: every change of status is one of draft->placed, placed->paid,
\* paid->shipped, shipped->delivered, draft->cancelled, placed->cancelled,
\* paid->cancelled; the status only moves on, so an Order never re-enters a
\* status it has left; a chain of such changes from draft has at most four
\* of them.
C31_StatusOnlyMovesForward ==
    [][order'.status # order.status =>
          /\ <<order.status, order'.status>> \in StatusChanges
          /\ StatusRank(order'.status) > StatusRank(order.status)
          /\ last'.error = "OK"
          /\ StatusChains[4] = {DELIVERED}
          /\ StatusChains[5] = {}]_vars

\* C31 witness: the fourth change of status, deliver on a shipped Order.
C31_Witness ==
    /\ last = [op |-> "deliver", error |-> "OK"]
    /\ prev.status = SHIPPED
    /\ order.status = DELIVERED

----------------------------------------------------------------------------
(* Order.getItems.  What a caller holds after getItems() is either a new   *)
(* array of new objects (live = FALSE, array holds them) or the Order's    *)
(* own item array (live = TRUE): reading a live array reads the Order's    *)
(* items as they are now, writing to it writes to the Order's items.       *)
(* snapshot is the array the last getItems() returned, the lines the Order *)
(* held when it was called (taken), and whether the caller has written to  *)
(* the array since (op).                                                   *)

\* The callback of the map: item => ({productId, quantity, unitPrice,
\* subtotal})
itemSnapshot(item) ==
    [productId |-> item.productId, quantity |-> item.quantity,
     unitPrice |-> item.unitPrice, subtotal |-> getSubtotal(item).value]

\* this.items.map(callback): a new array
map(items) == [i \in 1..Len(items) |-> itemSnapshot(items[i])]

\* Mutant: getItems hands the Order's own item array out.
getItemsLive(this) == [live |-> TRUE, array |-> map(this.items)]

getItems(this) == [live |-> FALSE, array |-> map(this.items)]

\* What the caller reads in the array it was given.
ReadArray(array, this) ==
    IF array.live THEN map(this.items) ELSE array.array

\* The caller assigns quantity to the element at index of the array it was
\* given: the array after the assignment.
WriteArray(array, index, quantity) ==
    [array EXCEPT !.array[index].quantity = quantity]

\* The Order after that assignment: it changes when the array is its own.
WrittenThrough(array, this, index, quantity) ==
    IF array.live THEN [this EXCEPT !.items[index].quantity = quantity]
    ELSE this

SnapshotQuantities == {1, 2}

SnapshotPrices == {fromYen(1000).value}

\* The quantities a caller writes into a snapshot.
WrittenQuantities == {0}

\* The elements of a snapshot a caller writes to.
WrittenIndexes == {1}

GetItems ==
    /\ snapshot' = [op |-> "getItems", array |-> getItems(order),
                    taken |-> map(order.items)]
    /\ UNCHANGED <<order, prev, last, money, repository, pricing, customer>>

WriteSnapshot(index, quantity) ==
    /\ snapshot.op # "none"
    /\ index \in 1..Len(ReadArray(snapshot.array, order))
    /\ snapshot' = [snapshot EXCEPT
                       !.op = "write",
                       !.array = WriteArray(@, index, quantity)]
    /\ order' = WrittenThrough(snapshot.array, order, index, quantity)
    /\ UNCHANGED <<prev, last, money, repository, pricing, customer>>

NextSnapshot ==
    \/ \E p \in ProductIds, q \in SnapshotQuantities,
           price \in SnapshotPrices : AddItem(p, q, price)
    \/ \E p \in ProductIds : RemoveItem(p)
    \/ \E p \in ProductIds, q \in SnapshotQuantities :
          ChangeItemQuantity(p, q)
    \/ GetItems
    \/ \E index \in WrittenIndexes, quantity \in WrittenQuantities :
          WriteSnapshot(index, quantity)

SpecSnapshot == Init /\ [][NextSnapshot]_vars

C33_UnitPriceIsFixed ==
    /\ \A i \in 1..Len(prev.items), j \in 1..Len(order.items) :
          prev.items[i].productId = order.items[j].productId =>
              order.items[j].unitPrice = prev.items[i].unitPrice
    /\ order.status = DRAFT =>
          \A i \in 1..Len(order.items), a \in AddItemArguments :
              (/\ order.items[i].productId = a[1]
               /\ order.items[i].quantity + a[2] >= 1) =>
                  LET line == order.items[i]
                      merged == addItem(order, a[1], a[2], a[3]).this.items[i]
                  IN  /\ merged.unitPrice = line.unitPrice
                      /\ merged.quantity = line.quantity + a[2]
                      /\ getSubtotal(merged) =
                            Return([amount |-> line.unitPrice.amount
                                                * (line.quantity + a[2]),
                                    currency |-> line.unitPrice.currency])

\* C33 witness: addItem has merged into the only line of the Order and
\* raised its quantity.
C33_Witness ==
    /\ last = [op |-> "addItem", error |-> "OK"]
    /\ Len(prev.items) = 1
    /\ Len(order.items) = 1
    /\ order.items[1].quantity > prev.items[1].quantity
    /\ order.items[1].unitPrice = prev.items[1].unitPrice

\* C34: an Order never holds more than maxItems lines: addItem on a draft
\* Order that holds maxItems lines fails and leaves the Order unchanged,
\* also when the product already has a line (the limit is looked at before
\* the product is looked up).
C34_MaxItems ==
    [][/\ Len(order'.items) <= maxItems
       /\ \A a \in FullAddItemArguments :
             (/\ last'.op = "addItem"
              /\ order.status = DRAFT
              /\ Len(order.items) = maxItems
              /\ AddItem(a[1], a[2], a[3])) =>
                 (last'.error = "MaxItems" /\ order' = order)]_vars

\* C34 witness: addItem has failed on an Order of maxItems lines.
C34_Witness ==
    /\ last = [op |-> "addItem", error |-> "MaxItems"]
    /\ order.status = DRAFT
    /\ Len(order.items) = maxItems
    /\ order = prev

----------------------------------------------------------------------------
(* The repository and the Orders it was given: a caller keeps the Order it *)
(* has saved and goes on calling its methods.                              *)

\* Mutant: a method of Order works on a copy of the instance.
callOnCopy(heap, instance, result) == heap

\* A method of Order called on the instance: the instance is changed in
\* place, result.this is the Order as the method leaves it.
callOn(heap, instance, result) == [heap EXCEPT ![instance] = result.this]

\* The calls made on a saved Order.
LiveCalls == {"addItem", "place", "cancel"}

\* The outcome of the call on the Order this.
LiveCall(this, call) ==
    CASE call = "addItem" -> addItem(this, "P1", 2, fromYen(1000).value)
      [] call = "place" -> place(this, 1)
      [] call = "cancel" -> cancel(this)

LiveInstances == <<Order("O1", "C1"), Order("O2", "C1")>>

InitLive ==
    /\ Created
    /\ money = NoMoney
    /\ snapshot = NoSnapshot
    /\ pricing = NoPricing
    /\ customer = NoCustomer
    /\ repository = [heap |-> LiveInstances, orders |-> <<>>,
                     lastSaved |-> [id \in LookupIds |-> Undefined],
                     op |-> "new", arg |-> Undefined, result |-> Undefined]

OrderCall(instance, call) ==
    LET result == LiveCall(repository.heap[instance], call) IN
    /\ Bounded(result.this)
    /\ repository' = [repository EXCEPT
                         !.heap = callOn(@, instance, result),
                         !.op = call,
                         !.arg = instance,
                         !.result = result.error]
    /\ UNCHANGED <<order, prev, last, money, snapshot, pricing, customer>>

NextLive ==
    \/ \E instance \in DOMAIN LiveInstances : Save(instance)
    \/ \E id \in LookupIds : FindById(id)
    \/ \E customerId \in LookupCustomerIds : FindByCustomerId(customerId)
    \/ \E id \in LookupIds : Delete(id)
    \/ \E instance \in DOMAIN LiveInstances, call \in LiveCalls :
          OrderCall(instance, call)

SpecLive == InitLive /\ [][NextLive]_vars

----------------------------------------------------------------------------
(* PricingService.calculateShippingFee.  pricing is the last call: the     *)
(* total of the Order it was given and its outcome.                        *)

calculateShippingFee(this) ==
    LET FREE_SHIPPING_THRESHOLD == fromYen(5000).value
        STANDARD_SHIPPING_FEE == fromYen(500)
        greater == greaterThan(this.totalAmount, FREE_SHIPPING_THRESHOLD)
    IN  IF ~greater.ok THEN greater
        ELSE IF greater.value THEN zero
        ELSE STANDARD_SHIPPING_FEE

PricingProducts == {"P1"}

PricingQuantities == {1, 2}

PricingPrices == {fromYen(2500).value, Money(10, USD).value}

PricingDates == {1}

CalculateShippingFee ==
    /\ pricing' = [op |-> "calculateShippingFee",
                   total |-> order.totalAmount,
                   result |-> calculateShippingFee(order)]
    /\ UNCHANGED <<order, prev, last, money, repository, snapshot, customer>>

NextPricing ==
    \/ NextOver(PricingProducts, PricingQuantities, PricingPrices,
                PricingDates)
    \/ CalculateShippingFee

SpecPricing == Init /\ [][NextPricing]_vars

----------------------------------------------------------------------------
(* Customer.  An Email is its string value, a name a sequence of           *)
(* characters.  The source throws plain Error objects; the names used here *)
(* are                                                                     *)
(*   Suspended           changeEmail on a suspended Customer               *)
(*   EmptyName           changeName with an empty or blank name            *)
(*   InvalidPoints       addLoyaltyPoints / useLoyaltyPoints, points <= 0  *)
(*   NotActive           addLoyaltyPoints on a Customer that is not active *)
(*   InsufficientPoints  useLoyaltyPoints with more than the balance       *)
(* customer holds the Customer (this), the Customer as it was when the     *)
(* last call was made (prev), and the call with its argument and outcome.  *)

ACTIVE == "ACTIVE"

INACTIVE == "INACTIVE"

SUSPENDED == "SUSPENDED"

CustomerStatus == {ACTIVE, INACTIVE, SUSPENDED}

\* Email.equals
EmailEquals(this, other) == this = other

\* new Customer(id, name, email)
Customer(id, name, email) ==
    [id |-> id, name |-> name, email |-> email, status |-> ACTIVE,
     loyaltyPoints |-> 0]

\* Mutant: a suspended Customer can change the email.
changeEmailSuspended(this, newEmail) ==
    IF EmailEquals(this.email, newEmail) THEN Done(this)
    ELSE Done([this EXCEPT !.email = newEmail])

changeEmail(this, newEmail) ==
    IF EmailEquals(this.email, newEmail) THEN Done(this)
    ELSE IF this.status = SUSPENDED THEN Fail(this, "Suspended")
    ELSE Done([this EXCEPT !.email = newEmail])

\* newName.trim().length === 0
isBlank(name) == \A i \in 1..Len(name) : name[i] = " "

changeName(this, newName) ==
    IF newName = <<>> \/ isBlank(newName) THEN Fail(this, "EmptyName")
    ELSE Done([this EXCEPT !.name = newName])

\* Mutant: a Customer that is not active gains points.
addLoyaltyPointsAnyStatus(this, points) ==
    IF points <= 0 THEN Fail(this, "InvalidPoints")
    ELSE Done([this EXCEPT !.loyaltyPoints = @ + points])

addLoyaltyPoints(this, points) ==
    IF points <= 0 THEN Fail(this, "InvalidPoints")
    ELSE IF this.status # ACTIVE THEN Fail(this, "NotActive")
    ELSE Done([this EXCEPT !.loyaltyPoints = @ + points])

\* Mutant: useLoyaltyPoints does not look at the balance.
useLoyaltyPointsUnchecked(this, points) ==
    IF points <= 0 THEN Fail(this, "InvalidPoints")
    ELSE Done([this EXCEPT !.loyaltyPoints = @ - points])

useLoyaltyPoints(this, points) ==
    IF points <= 0 THEN Fail(this, "InvalidPoints")
    ELSE IF points > this.loyaltyPoints
    THEN Fail(this, "InsufficientPoints")
    ELSE Done([this EXCEPT !.loyaltyPoints = @ - points])

suspend(this) ==
    IF this.status = SUSPENDED THEN Done(this)
    ELSE Done([this EXCEPT !.status = SUSPENDED])

activate(this) ==
    IF this.status = ACTIVE THEN Done(this)
    ELSE Done([this EXCEPT !.status = ACTIVE])

\* Largest balance a Customer is let to reach.
MaxPoints == 4

Points == {-1, 0, 1, 2}

Emails == {"a@example.com", "b@example.com"}

Names == {<<>>, <<" ">>, <<"A">>}

InitCustomer ==
    /\ Created
    /\ money = NoMoney
    /\ repository = NoRepository
    /\ snapshot = NoSnapshot
    /\ pricing = NoPricing
    /\ \E id \in CustomerIds, email \in Emails :
          customer = [this |-> Customer(id, <<"A">>, email),
                      prev |-> Customer(id, <<"A">>, email),
                      op |-> "new", arg |-> Undefined, error |-> "OK"]

CustomerCall(op, arg, result) ==
    /\ result.this.loyaltyPoints <= MaxPoints
    /\ customer' = [this |-> result.this, prev |-> customer.this,
                    op |-> op, arg |-> arg, error |-> result.error]
    /\ UNCHANGED <<order, prev, last, money, repository, snapshot, pricing>>

ChangeEmail(newEmail) ==
    CustomerCall("changeEmail", newEmail,
                 changeEmail(customer.this, newEmail))

ChangeName(newName) ==
    CustomerCall("changeName", newName, changeName(customer.this, newName))

AddLoyaltyPoints(points) ==
    CustomerCall("addLoyaltyPoints", points,
                 addLoyaltyPoints(customer.this, points))

UseLoyaltyPoints(points) ==
    CustomerCall("useLoyaltyPoints", points,
                 useLoyaltyPoints(customer.this, points))

Suspend == CustomerCall("suspend", Undefined, suspend(customer.this))

Activate == CustomerCall("activate", Undefined, activate(customer.this))

NextCustomer ==
    \/ \E newEmail \in Emails : ChangeEmail(newEmail)
    \/ \E newName \in Names : ChangeName(newName)
    \/ \E points \in Points : AddLoyaltyPoints(points)
    \/ \E points \in Points : UseLoyaltyPoints(points)
    \/ Suspend
    \/ Activate

SpecCustomer == InitCustomer /\ [][NextCustomer]_vars

\* C37: a Customer's balance of loyalty points is never negative:
\* useLoyaltyPoints(n) fails and leaves the balance unchanged when n <= 0 or
\* n is more than the balance, and otherwise lowers it by exactly n;
\* addLoyaltyPoints(n) fails and leaves it unchanged when n <= 0.
C37_BalanceNeverNegative ==
    /\ customer.this.loyaltyPoints >= 0
    /\ customer.op = "new" => customer.this.loyaltyPoints = 0
    /\ customer.op = "useLoyaltyPoints" =>
           IF customer.arg <= 0 \/ customer.arg > customer.prev.loyaltyPoints
           THEN customer.error # "OK" /\ customer.this = customer.prev
           ELSE /\ customer.error = "OK"
                /\ customer.this.loyaltyPoints =
                       customer.prev.loyaltyPoints - customer.arg
    /\ (customer.op = "addLoyaltyPoints" /\ customer.arg <= 0) =>
           (customer.error # "OK" /\ customer.this = customer.prev)

\* C37 witness: useLoyaltyPoints of more than the balance has failed.
C37_Witness ==
    /\ customer.op = "useLoyaltyPoints"
    /\ customer.prev.loyaltyPoints = 1
    /\ customer.arg = 2
    /\ customer.error = "InsufficientPoints"

\* C38: only an active Customer gains loyalty points: addLoyaltyPoints on a
\* Customer that is not active fails and leaves the balance unchanged, so
\* no call made on a suspended Customer raises the balance.
C38_OnlyActiveGainsPoints ==
    /\ (customer.op = "addLoyaltyPoints"
           /\ customer.prev.status # ACTIVE) =>
          (customer.error # "OK" /\ customer.this = customer.prev)
    /\ customer.prev.status # ACTIVE =>
          customer.this.loyaltyPoints <= customer.prev.loyaltyPoints

\* C38 witness: addLoyaltyPoints of a positive number has failed on a
\* suspended Customer.
C38_Witness ==
    /\ customer.op = "addLoyaltyPoints"
    /\ customer.arg > 0
    /\ customer.prev.status = SUSPENDED
    /\ customer.error = "NotActive"

\* C39 as stated: changeEmail on a suspended Customer fails, for every
\* email argument, and the stored email stays unchanged.
C39_Original ==
    (customer.op = "changeEmail" /\ customer.prev.status = SUSPENDED) =>
        (customer.error # "OK" /\ customer.this.email = customer.prev.email)

\* C39 amended: changeEmail on a suspended Customer fails for every email
\* argument that differs from the stored email and returns without error
\* for the stored email itself; in both cases, and under every other call
\* made on a suspended Customer, the stored email stays unchanged.
C39_SuspendedKeepsEmail ==
    /\ (customer.op = "changeEmail" /\ customer.prev.status = SUSPENDED) =>
          /\ customer.error =
                IF customer.arg = customer.prev.email THEN "OK"
                ELSE "Suspended"
          /\ customer.this = customer.prev
    /\ customer.prev.status = SUSPENDED =>
          customer.this.email = customer.prev.email

\* C39 witness: changeEmail to the stored email has returned without error
\* on a suspended Customer.
C39_Witness ==
    /\ customer.op = "changeEmail"
    /\ customer.prev.status = SUSPENDED
    /\ customer.arg = customer.prev.email
    /\ customer.error = "OK"

====
